---- MODULE Spec2Model ----
(***************************************************************************)
(* The job-lifecycle engine of api-mock/server.js (an in-memory Map of     *)
(* jobs advanced by three setTimeout callbacks per job) and the tool       *)
(* dispatch layer of mcp-server/index.js that calls it over HTTP.          *)
(*                                                                         *)
(* Time is counted in whole seconds since the server started; a timestamp  *)
(* (new Date().toISOString()) is the clock's reading.  A JavaScript object *)
(* is a record whose DOMAIN is the set of keys it has, so an absent key    *)
(* (undefined) is a key outside the DOMAIN.                                *)
(***************************************************************************)
EXTENDS Integers, Sequences, FiniteSets, TLC

VARIABLES
    jobs,        \* the Map `jobs`, as the sequence of its values in insertion order
    timers,      \* the armed setTimeout callbacks: [job, kind, due]
    clock,       \* seconds since the server started
    request,     \* the request handled by the step just taken
    response,    \* the HTTP response written by the step just taken
    toolResult,  \* the tool-call result returned by the step just taken
    cancelled    \* history: ids of the jobs on which a cancel has succeeded

vars == <<jobs, timers, clock, request, response, toolResult, cancelled>>

----------------------------------------------------------------------------
(* Bounds of the exploration *)

MaxJobs == 1
MaxClock == 10
ListMaxJobs == 3
StoreMaxJobs == 2
CreateWindow == 1

----------------------------------------------------------------------------
(* Program constants *)

DefaultNumSamples == 100
DefaultLimit == 10
PreviewCap == 10
RunningDelay == 2
ProgressDelay == 5
CompleteDelay == 10

----------------------------------------------------------------------------
(* JavaScript values *)

Has(obj, key) == key \in DOMAIN obj

\* const { key = dflt } = obj
Field(obj, key, dflt) == IF Has(obj, key) THEN obj[key] ELSE dflt

\* obj.key || dflt, for string-valued keys: undefined and "" are falsy
OrElse(obj, key, dflt) ==
    IF Has(obj, key) /\ obj[key] # "" THEN obj[key] ELSE dflt

\* obj.key read where the key may be absent
Undefined == "undefined"
Read(obj, key) == Field(obj, key, Undefined)

EmptyObject == [k \in {} |-> k]

Min(a, b) == IF a < b THEN a ELSE b
Max(a, b) == IF a > b THEN a ELSE b

\* Array.prototype.slice(0, end)
Slice0(seq, end) ==
    LET stop == IF end < 0 THEN Max(Len(seq) + end, 0) ELSE Min(end, Len(seq))
    IN  SubSeq(seq, 1, stop)

\* Array.prototype.filter
RECURSIVE Filter(_, _)
Filter(seq, status) ==
    IF seq = <<>> THEN <<>>
    ELSE IF Head(seq).status = status
         THEN <<Head(seq)>> \o Filter(Tail(seq), status)
         ELSE Filter(Tail(seq), status)

----------------------------------------------------------------------------
(* generateMockResults *)

\* The outcomes of the successive Math.random() calls of one run, in
\* thousandths: each is in [0, 1000).
RandomStreams ==
    { [i \in 1..PreviewCap |-> 0],
      [i \in 1..PreviewCap |-> (i * 373) % 1000] }

DefaultLabels == <<"class_1", "class_2", "class_3">>

QuestionRecord(i, config) ==
    [ id |-> i,
      question |-> "What is an example question about "
                     \o OrElse(config, "domain", "general knowledge")
                     \o " #" \o ToString(i) \o "?",
      answer |-> "This is a " \o OrElse(config, "difficulty", "medium")
                     \o " difficulty answer providing detailed information about the topic.",
      context |-> "Context for question " \o ToString(i) ]

SummaryRecord(i, config) ==
    [ id |-> i,
      source_text |-> "This is a " \o OrElse(config, "source_length", "medium")
                     \o " length source document #" \o ToString(i)
                     \o " that needs to be summarized. It contains multiple sentences with various information.",
      summary |-> OrElse(config, "style", "Abstractive")
                     \o " summary of document " \o ToString(i) \o "." ]

\* variant: every record carries the first label
ClassificationRecordFirstLabel(i, config, rnd) ==
    LET labels == Field(config, "class_labels", DefaultLabels)
    IN  [ id |-> i,
          text |-> "Sample text for classification #" \o ToString(i),
          label |-> IF Len(labels) = 0 THEN Undefined ELSE labels[1],
          confidence |-> 850 + (rnd[i] * 150) \div 1000 ]

\* labels[i % labels.length] with i counted from 0; confidence in thousandths
ClassificationRecord(i, config, rnd) ==
    LET labels == Field(config, "class_labels", DefaultLabels)
    IN  [ id |-> i,
          text |-> "Sample text for classification #" \o ToString(i),
          label |-> IF Len(labels) = 0 THEN Undefined
                    ELSE labels[((i - 1) % Len(labels)) + 1],
          confidence |-> 850 + (rnd[i] * 150) \div 1000 ]

TextRecord(i, config) ==
    [ id |-> i,
      text |-> "Generated " \o OrElse(config, "style", "general")
                 \o " text sample #" \o ToString(i) \o " with "
                 \o OrElse(config, "length", "medium") \o " length.",
      metadata |-> [ style |-> Read(config, "style"),
                     topics |-> Read(config, "topics") ] ]

GenericRecord(i) ==
    [ id |-> i, data |-> "Generic synthetic data sample #" \o ToString(i) ]

\* The loops run for i = 0 .. sampleCount - 1 and push the record with id
\* i + 1: no record at all when sampleCount < 1.
generateMockResults(taskType, numSamples, config, rnd) ==
    LET sampleCount == Min(numSamples, PreviewCap)
    IN  [ i \in 1..sampleCount |->
            CASE taskType = "question_answering" -> QuestionRecord(i, config)
              [] taskType = "summarization"      -> SummaryRecord(i, config)
              [] taskType = "classification"     -> ClassificationRecord(i, config, rnd)
              [] taskType = "text_generation"    -> TextRecord(i, config)
              [] OTHER                           -> GenericRecord(i) ]

----------------------------------------------------------------------------
(* The Map of jobs *)

JobsHas(store, id) == \E i \in DOMAIN store : store[i].job_id = id

JobsIndex(store, id) == CHOOSE i \in DOMAIN store : store[i].job_id = id

JobsGet(store, id) == store[JobsIndex(store, id)]

\* Map.prototype.set: a new key goes last, an existing key keeps its place
JobsSet(store, id, job) ==
    IF JobsHas(store, id)
    THEN [store EXCEPT ![JobsIndex(store, id)] = job]
    ELSE Append(store, job)

\* variant: the id generator hands out the same id again
Uuidv4Repeating(store) == "job-1"

\* uuidv4(): an id no job has yet
JobId(n) == "job-" \o ToString(n)
Uuidv4(store) == JobId(Len(store) + 1)

----------------------------------------------------------------------------
(* The HTTP handlers of api-mock/server.js.  Each is the outcome of one     *)
(* request on the current state: the store, the armed timers and the       *)
(* response written.                                                       *)

NoResponse == [status |-> 0]

Outcome(store, armed, resp, canc) ==
    [jobs |-> store, timers |-> armed, response |-> resp, cancelled |-> canc]

Unchanged(resp) == Outcome(jobs, timers, resp, cancelled)

\* variant: only an absent field is turned down
FalsyAbsentOnly(body, key) == ~Has(body, key)

\* !name || !task_type
Falsy(body, key) == ~Has(body, key) \/ body[key] = ""

\* variant: a job is stored as already running
NewJobRunning(jobId, body) ==
    [ job_id |-> jobId,
      name |-> body.name,
      task_type |-> body.task_type,
      num_samples |-> Field(body, "num_samples", DefaultNumSamples),
      config |-> Field(body, "config", EmptyObject),
      status |-> "running",
      progress |-> 0,
      created_at |-> clock,
      updated_at |-> clock ]

\* variant: a request without num_samples asks for ten samples
NewJobTenSamples(jobId, body) ==
    [ job_id |-> jobId,
      name |-> body.name,
      task_type |-> body.task_type,
      num_samples |-> Field(body, "num_samples", 10),
      config |-> Field(body, "config", EmptyObject),
      status |-> "pending",
      progress |-> 0,
      created_at |-> clock,
      updated_at |-> clock ]

NewJob(jobId, body) ==
    [ job_id |-> jobId,
      name |-> body.name,
      task_type |-> body.task_type,
      num_samples |-> Field(body, "num_samples", DefaultNumSamples),
      config |-> Field(body, "config", EmptyObject),
      status |-> "pending",
      progress |-> 0,
      created_at |-> clock,
      updated_at |-> clock ]

ArmedFor(jobId) ==
    { [job |-> jobId, kind |-> 1, due |-> clock + RunningDelay],
      [job |-> jobId, kind |-> 2, due |-> clock + ProgressDelay],
      [job |-> jobId, kind |-> 3, due |-> clock + CompleteDelay] }

\* app.get('/health')
Health ==
    Unchanged([status |-> 200,
               body |-> [status |-> "healthy", service |-> "nemo-data-designer-mock"]])

\* variant: arming the timers of a new job drops the timers armed before
PostJobsRearm(body, diskOk) ==
    IF Falsy(body, "name") \/ Falsy(body, "task_type")
    THEN Unchanged([status |-> 400,
                    body |-> [error |-> "name and task_type are required"]])
    ELSE LET jobId == Uuidv4(jobs)
             job == NewJob(jobId, body)
         IN  Outcome(JobsSet(jobs, jobId, job), ArmedFor(jobId),
                     [status |-> 201,
                      body |-> [job_id |-> jobId,
                                status |-> job.status,
                                message |-> "Job \"" \o body.name
                                              \o "\" created successfully"]],
                     cancelled)

\* app.post('/v1/jobs'); diskOk is whether fs.writeFileSync returns: when it
\* throws, the handler ends there and express answers 500.
PostJobs(body, diskOk) ==
    IF Falsy(body, "name") \/ Falsy(body, "task_type")
    THEN Unchanged([status |-> 400,
                    body |-> [error |-> "name and task_type are required"]])
    ELSE LET jobId == Uuidv4(jobs)
             job == NewJob(jobId, body)
             stored == JobsSet(jobs, jobId, job)
         IN  IF diskOk
             THEN Outcome(stored, timers \cup ArmedFor(jobId),
                          [status |-> 201,
                           body |-> [job_id |-> jobId,
                                     status |-> job.status,
                                     message |-> "Job \"" \o body.name
                                                   \o "\" created successfully"]],
                          cancelled)
             ELSE Outcome(stored, timers,
                          [status |-> 500, body |-> [error |-> "Internal Server Error"]],
                          cancelled)

\* variant: an unknown id is answered as a success
NotFoundAccepted == [status |-> 200, body |-> [error |-> "Job not found"]]

NotFound == [status |-> 404, body |-> [error |-> "Job not found"]]

\* variant: reading a job stamps it
GetJobTouching(id) ==
    IF ~JobsHas(jobs, id) THEN Unchanged(NotFound)
    ELSE LET job == [JobsGet(jobs, id) EXCEPT !.updated_at = clock]
         IN  Outcome(JobsSet(jobs, id, job), timers,
                     [status |-> 200, body |-> job], cancelled)

\* app.get('/v1/jobs/:job_id')
GetJob(id) ==
    IF ~JobsHas(jobs, id) THEN Unchanged(NotFound)
    ELSE Unchanged([status |-> 200, body |-> JobsGet(jobs, id)])

\* variant: the list is cut to `limit` jobs before the status is compared
ListJobsCutFirst(query) ==
    LET all == jobs
        cut == Slice0(all, Field(query, "limit", DefaultLimit))
        jobList == IF ~Falsy(query, "status") THEN Filter(cut, query.status) ELSE cut
    IN  Unchanged([status |-> 200,
                   body |-> [total |-> Len(jobList), jobs |-> jobList]])

\* variant: total counts the jobs of the store
ListJobsTotalStore(query) ==
    LET all == jobs
        kept == IF ~Falsy(query, "status") THEN Filter(all, query.status) ELSE all
        jobList == Slice0(kept, Field(query, "limit", DefaultLimit))
    IN  Unchanged([status |-> 200,
                   body |-> [total |-> Len(all), jobs |-> jobList]])

\* app.get('/v1/jobs'); query.limit is the number parseInt reads
ListJobs(query) ==
    LET all == jobs
        kept == IF ~Falsy(query, "status") THEN Filter(all, query.status) ELSE all
        jobList == Slice0(kept, Field(query, "limit", DefaultLimit))
    IN  Unchanged([status |-> 200,
                   body |-> [total |-> Len(jobList), jobs |-> jobList]])

\* variant: the results handler without the check of the job's status
GetResultsUnchecked(id) ==
    IF ~JobsHas(jobs, id) THEN Unchanged(NotFound)
    ELSE LET job == JobsGet(jobs, id)
         IN  Unchanged([status |-> 200,
                        body |-> [job_id |-> id,
                                  results |-> Read(job, "results"),
                                  num_samples |-> job.num_samples]])

\* variant: the results route counts the records it returns
GetResultsCounted(id) ==
    IF ~JobsHas(jobs, id) THEN Unchanged(NotFound)
    ELSE LET job == JobsGet(jobs, id)
         IN  IF job.status # "completed"
             THEN Unchanged([status |-> 400,
                             body |-> [error |-> "Job not completed yet",
                                       status |-> job.status,
                                       progress |-> job.progress]])
             ELSE Unchanged([status |-> 200,
                             body |-> [job_id |-> id,
                                       results |-> Read(job, "results"),
                                       num_samples |-> Len(job.results)]])

\* app.get('/v1/jobs/:job_id/results')
GetResults(id) ==
    IF ~JobsHas(jobs, id) THEN Unchanged(NotFound)
    ELSE LET job == JobsGet(jobs, id)
         IN  IF job.status # "completed"
             THEN Unchanged([status |-> 400,
                             body |-> [error |-> "Job not completed yet",
                                       status |-> job.status,
                                       progress |-> job.progress]])
             ELSE Unchanged([status |-> 200,
                             body |-> [job_id |-> id,
                                       results |-> Read(job, "results"),
                                       num_samples |-> job.num_samples]])

\* variant: cancelling also closes the progress bar
CancelledJobFull(job) ==
    [job EXCEPT !.status = "cancelled", !.progress = 100, !.updated_at = clock]

\* job.status = 'cancelled'; job.updated_at = new Date().toISOString()
CancelledJob(job) == [job EXCEPT !.status = "cancelled", !.updated_at = clock]

\* variant: cancel without the check of the job's status
CancelJobUnguarded(id) ==
    IF ~JobsHas(jobs, id) THEN Unchanged(NotFound)
    ELSE Outcome([jobs EXCEPT ![JobsIndex(jobs, id)] = CancelledJob(@)],
                 timers,
                 [status |-> 200,
                  body |-> [job_id |-> id,
                            status |-> "cancelled",
                            message |-> "Job cancelled successfully"]],
                 cancelled \cup {id})

\* variant: a job already cancelled is turned down like a completed one
CancelJobOnce(id) ==
    IF ~JobsHas(jobs, id) THEN Unchanged(NotFound)
    ELSE LET job == JobsGet(jobs, id)
         IN  IF job.status = "completed" \/ job.status = "failed"
                \/ job.status = "cancelled"
             THEN Unchanged([status |-> 400,
                             body |-> [error |-> "Cannot cancel job with status: "
                                                   \o job.status]])
             ELSE Outcome([jobs EXCEPT ![JobsIndex(jobs, id)] = CancelledJob(job)],
                          timers,
                          [status |-> 200,
                           body |-> [job_id |-> id,
                                     status |-> "cancelled",
                                     message |-> "Job cancelled successfully"]],
                          cancelled \cup {id})

\* app.post('/v1/jobs/:job_id/cancel')
CancelJob(id) ==
    IF ~JobsHas(jobs, id) THEN Unchanged(NotFound)
    ELSE LET job == JobsGet(jobs, id)
         IN  IF job.status = "completed" \/ job.status = "failed"
             THEN Unchanged([status |-> 400,
                             body |-> [error |-> "Cannot cancel job with status: "
                                                   \o job.status]])
             ELSE Outcome([jobs EXCEPT ![JobsIndex(jobs, id)] = CancelledJob(job)],
                          timers,
                          [status |-> 200,
                           body |-> [job_id |-> id,
                                     status |-> "cancelled",
                                     message |-> "Job cancelled successfully"]],
                          cancelled \cup {id})

----------------------------------------------------------------------------
(* The setTimeout callbacks armed by app.post('/v1/jobs') *)

\* variant: the first callback reports progress and leaves the status
ToRunningStillPending(job) ==
    [job EXCEPT !.progress = 25, !.updated_at = clock]

\* variant: the first callback stamps the creation time anew
ToRunningRestamped(job) ==
    [job EXCEPT !.status = "running", !.progress = 25, !.updated_at = clock,
                !.created_at = clock]

\* the callback of 2000 ms
ToRunning(job) ==
    [job EXCEPT !.status = "running", !.progress = 25, !.updated_at = clock]

\* variant: the second callback reports half-way
ToProgressHalf(job) ==
    [job EXCEPT !.status = "running", !.progress = 50, !.updated_at = clock]

\* variant: the second callback gives the job up
ToProgressFailed(job) ==
    [job EXCEPT !.status = "failed", !.updated_at = clock]

\* the callback of 5000 ms
ToProgress(job) ==
    [job EXCEPT !.status = "running", !.progress = 75, !.updated_at = clock]

\* variant: the last callback marks the job completed and attaches nothing
ToCompletedNoResults(job, rnd) ==
    [k \in DOMAIN job \cup {"completed_at"} |->
        CASE k = "status"       -> "completed"
          [] k = "progress"     -> 100
          [] k = "updated_at"   -> clock
          [] k = "completed_at" -> clock
          [] OTHER              -> job[k]]

\* the callback of 10000 ms: task_type, num_samples and config are the
\* values the create handler read from the request
ToCompleted(job, rnd) ==
    [k \in DOMAIN job \cup {"completed_at", "results"} |->
        CASE k = "status"       -> "completed"
          [] k = "progress"     -> 100
          [] k = "updated_at"   -> clock
          [] k = "completed_at" -> clock
          [] k = "results"      -> generateMockResults(job.task_type, job.num_samples,
                                                       job.config, rnd)
          [] OTHER              -> job[k]]

Callback(job, kind, rnd) ==
    CASE kind = 1 -> ToRunning(job)
      [] kind = 2 -> ToProgress(job)
      [] kind = 3 -> ToCompleted(job, rnd)

\* variant: any armed timer may run, whatever its delay
MayRunUnordered(t) == t \in timers

\* Timers run in the order of their expiry; two timers of the same delay run
\* in the order they were armed.
MayRun(t) ==
    /\ t.due <= clock
    /\ \A u \in timers :
          /\ u.due >= t.due
          /\ (u.due = t.due /\ u.kind = t.kind)
                => JobsIndex(jobs, u.job) >= JobsIndex(jobs, t.job)

\* Math.random() is read once per classification record
Draws(job, kind) ==
    IF kind = 3 /\ job.task_type = "classification" /\ job.num_samples >= 1
    THEN RandomStreams
    ELSE {[i \in 1..PreviewCap |-> 0]}

----------------------------------------------------------------------------
(* Requests *)

CreateBodies ==
    { [name |-> "sentiment", task_type |-> "classification", num_samples |-> 50,
       config |-> [class_labels |-> <<"positive", "negative", "neutral">>]],
      [name |-> "defaults", task_type |-> "translation"],
      [name |-> "none", task_type |-> "summarization", num_samples |-> 0,
       config |-> [style |-> "Extractive"]],
      [name |-> "negative", task_type |-> "question_answering", num_samples |-> -1],
      [task_type |-> "classification", num_samples |-> 5],
      [name |-> "untyped", task_type |-> ""] }

\* the create requests that exercise the generator: the sample counts around
\* the preview cap, with and without class_labels
SampleCounts == {0, 2, 4, 50}

LabelConfigs ==
    { EmptyObject,
      [class_labels |-> <<"positive", "negative", "neutral">>],
      [class_labels |-> <<"spam", "ham">>],
      [class_labels |-> <<"only">>],
      [class_labels |-> <<>>] }

\* task types the generator has no case for, and the sample counts they are
\* created with
UnknownTypes == {"translation", "Classification"}

UnknownCounts == {-1, 0, 3, 50}

GenBodies ==
    { [name |-> "labelled", task_type |-> "classification", num_samples |-> n,
       config |-> config] : n \in SampleCounts, config \in LabelConfigs }
    \cup { [name |-> "plain", task_type |-> "classification"],
           [name |-> "other", task_type |-> "text_generation", num_samples |-> 4,
            config |-> [class_labels |-> <<"spam", "ham">>]] }
    \cup { [name |-> "custom", task_type |-> t, num_samples |-> n] :
             t \in UnknownTypes, n \in UnknownCounts }
    \cup { [name |-> "custom", task_type |-> "translation",
            config |-> [class_labels |-> <<"spam", "ham">>]] }

\* the ids a request may name: those create can hand out, and one it never does
JobIds == {JobId(n) : n \in 1..MaxJobs} \cup {"no-such-job"}

ListQueries ==
    { EmptyObject, [limit |-> 1], [limit |-> -1], [status |-> "completed"],
      [status |-> "cancelled", limit |-> 2], [status |-> ""] }

\* the requests that exercise the list: one create body, and queries with
\* and without a status and a limit
ListedBody == [name |-> "listed", task_type |-> "text_generation", num_samples |-> 1]

ListedIds == {JobId(n) : n \in 1..ListMaxJobs}

StoreQueries ==
    { EmptyObject, [limit |-> 2], [limit |-> 0],
      [status |-> "running"], [status |-> "cancelled", limit |-> 1],
      [status |-> "pending", limit |-> 2] }

ToolListArguments ==
    { [limit |-> 2], [status |-> "cancelled", limit |-> 1] }

\* the requests put to a store of several jobs
StoreBodies ==
    { [name |-> "alpha", task_type |-> "question_answering", num_samples |-> 2,
       config |-> [domain |-> "medical"]],
      [name |-> "beta", task_type |-> "summarization"] }

StoreIds == {JobId(n) : n \in 1..StoreMaxJobs} \cup {"no-such-job"}

----------------------------------------------------------------------------
(* The tool dispatch layer of mcp-server/index.js.  A text is the sequence  *)
(* of the pieces it is put together from; the JSON text of an object is    *)
(* one piece holding the object.                                           *)

\* axios resolves with the response when its status is 2xx, and otherwise
\* rejects with an Error whose message names the status code only
AxiosOk(resp) == resp.status >= 200 /\ resp.status < 300

AxiosMessage(resp) == <<"Request failed with status code ", ToString(resp.status)>>

\* `const { key } = args` when args is undefined
DestructureMessage(key) ==
    <<"Cannot destructure property '", key, "' of 'args' as it is undefined.">>

\* JSON.stringify(obj, null, 2)
Json(obj) == <<[json |-> obj]>>

TextResult(obj) == [content |-> <<[type |-> "text", text |-> Json(obj)]>>]

\* variant: the catch block answers with the text alone
ErrorResultUnflagged(message) ==
    [content |-> <<[type |-> "text", text |-> <<"Error: ">> \o message]>>]

\* the catch block of the CallToolRequestSchema handler
ErrorResult(message) ==
    [content |-> <<[type |-> "text", text |-> <<"Error: ">> \o message]>>,
     isError |-> TRUE]

Returned(out, result) == [out |-> out, result |-> result]

\* a handler that throws before it calls the backend
Thrown(message) == Returned(Unchanged(NoResponse), ErrorResult(message))

\* the URL segment `${job_id}`
IdSegment(args) == Field(args, "job_id", Undefined)

\* the body axios posts: JSON leaves out job_name and task_type when undefined
JobPayload(args) ==
    [k \in {"num_samples", "config"}
           \cup (IF Has(args, "job_name") THEN {"name"} ELSE {})
           \cup (IF Has(args, "task_type") THEN {"task_type"} ELSE {}) |->
        CASE k = "name"        -> args.job_name
          [] k = "task_type"   -> args.task_type
          [] k = "num_samples" -> Field(args, "num_samples", DefaultNumSamples)
          [] k = "config"      -> Field(args, "config", EmptyObject)]

createJob(args, diskOk) ==
    LET out == PostJobs(JobPayload(args), diskOk)
        data == out.response.body
    IN  IF ~AxiosOk(out.response)
        THEN Returned(out, ErrorResult(AxiosMessage(out.response)))
        ELSE Returned(out, TextResult(
                 [success |-> TRUE,
                  job_id |-> data.job_id,
                  status |-> data.status,
                  message |-> "Job \"" \o args.job_name
                                \o "\" created successfully. Job ID: " \o data.job_id]))

getJobStatus(args) ==
    LET out == GetJob(IdSegment(args))
        data == out.response.body
    IN  IF ~AxiosOk(out.response)
        THEN Returned(out, ErrorResult(AxiosMessage(out.response)))
        ELSE Returned(out, TextResult(
                 [job_id |-> data.job_id,
                  name |-> data.name,
                  status |-> data.status,
                  progress |-> data.progress,
                  created_at |-> data.created_at,
                  updated_at |-> data.updated_at]))

\* params = { limit }; if (status) params.status = status
ListParams(args) ==
    [k \in {"limit"} \cup (IF ~Falsy(args, "status") THEN {"status"} ELSE {}) |->
        IF k = "limit" THEN Field(args, "limit", DefaultLimit) ELSE args.status]

listJobs(args) ==
    LET out == ListJobs(ListParams(args))
        data == out.response.body
    IN  IF ~AxiosOk(out.response)
        THEN Returned(out, ErrorResult(AxiosMessage(out.response)))
        ELSE Returned(out, TextResult([total |-> data.total, jobs |-> data.jobs]))

getJobResults(args) ==
    LET out == GetResults(IdSegment(args))
        data == out.response.body
    IN  IF ~AxiosOk(out.response)
        THEN Returned(out, ErrorResult(AxiosMessage(out.response)))
        ELSE Returned(out, TextResult(
                 [job_id |-> IdSegment(args),
                  results |-> data.results,
                  num_samples |-> data.num_samples]))

cancelJob(args) ==
    LET out == CancelJob(IdSegment(args))
        data == out.response.body
    IN  IF ~AxiosOk(out.response)
        THEN Returned(out, ErrorResult(AxiosMessage(out.response)))
        ELSE Returned(out, TextResult(
                 [success |-> TRUE,
                  job_id |-> IdSegment(args),
                  status |-> data.status,
                  message |-> "Job " \o IdSegment(args) \o " has been cancelled."]))

(* guideJobCreation.  A goal is the sequence of its characters.             *)

Upper ==
    << "A", "B", "C", "D", "E", "F", "G", "H", "I", "J", "K", "L", "M",
       "N", "O", "P", "Q", "R", "S", "T", "U", "V", "W", "X", "Y", "Z" >>

Lower ==
    << "a", "b", "c", "d", "e", "f", "g", "h", "i", "j", "k", "l", "m",
       "n", "o", "p", "q", "r", "s", "t", "u", "v", "w", "x", "y", "z" >>

\* String.prototype.toLowerCase
LowerChar(c) ==
    IF \E k \in DOMAIN Upper : Upper[k] = c
    THEN Lower[CHOOSE k \in DOMAIN Upper : Upper[k] = c]
    ELSE c

ToLowerCase(str) == [k \in DOMAIN str |-> LowerChar(str[k])]

\* String.prototype.includes
Includes(str, word) ==
    \E at \in 0..(Len(str) - Len(word)) :
        \A k \in DOMAIN word : str[at + k] = word[k]

QuestionAnsweringAdvice ==
    [ task_type |-> "question_answering",
      description |-> "Generate question-answer pairs for training or evaluation",
      suggested_config |->
          [ domain |-> "Specify your domain (e.g., medical, legal, technical)",
            difficulty |-> "easy, medium, or hard",
            answer_length |-> "short, medium, or long" ] ]

SummarizationAdvice ==
    [ task_type |-> "summarization",
      description |-> "Generate text summarization examples",
      suggested_config |->
          [ source_length |-> "Length of source documents",
            summary_length |-> "Desired summary length",
            style |-> "abstractive or extractive" ] ]

ClassificationAdvice ==
    [ task_type |-> "classification",
      description |-> "Generate labeled examples for classification tasks",
      suggested_config |->
          [ num_classes |-> "Number of categories",
            class_labels |-> "List of class names",
            balance |-> "balanced or imbalanced distribution" ] ]

TextGenerationAdvice ==
    [ task_type |-> "text_generation",
      description |-> "Generate diverse text samples",
      suggested_config |->
          [ style |-> "formal, casual, technical, creative",
            length |-> "short, medium, or long",
            topics |-> "List of topics to cover" ] ]

FallbackAdvice ==
    [ message |-> "Please specify what type of data you need",
      available_tasks |->
          << "question_answering - Q&A pairs",
             "summarization - Text summaries",
             "classification - Labeled examples",
             "text_generation - General text" >> ]

\* variant: the last step is left out
NextStepsThree ==
    << "1. Choose a task_type from the recommendations",
       "2. Decide how many samples you need (num_samples)",
       "3. Configure task-specific parameters" >>

NextSteps ==
    << "1. Choose a task_type from the recommendations",
       "2. Decide how many samples you need (num_samples)",
       "3. Configure task-specific parameters",
       "4. Use create_synthetic_data_job to start generation" >>

\* the keywords of the goal analysis
WordQuestion == <<"q", "u", "e", "s", "t", "i", "o", "n">>

WordQa == <<"q", "a">>

WordSummar == <<"s", "u", "m", "m", "a", "r">>

WordClassif == <<"c", "l", "a", "s", "s", "i", "f">>

WordCategor == <<"c", "a", "t", "e", "g", "o", "r">>

WordGenerat == <<"g", "e", "n", "e", "r", "a", "t">>

WordText == <<"t", "e", "x", "t">>

\* variant: the analysis stops at the first keyword found
RecommendationsFirstMatch(goalLower) ==
    IF Includes(goalLower, WordQuestion) \/ Includes(goalLower, WordQa)
    THEN <<QuestionAnsweringAdvice>>
    ELSE IF Includes(goalLower, WordSummar)
    THEN <<SummarizationAdvice>>
    ELSE IF Includes(goalLower, WordClassif) \/ Includes(goalLower, WordCategor)
    THEN <<ClassificationAdvice>>
    ELSE IF Includes(goalLower, WordGenerat) \/ Includes(goalLower, WordText)
    THEN <<TextGenerationAdvice>>
    ELSE <<FallbackAdvice>>

\* variant: the general guidance is pushed whatever was found
RecommendationsWithFallback(goalLower) ==
    (IF Includes(goalLower, WordQuestion) \/ Includes(goalLower, WordQa)
     THEN <<QuestionAnsweringAdvice>> ELSE <<>>)
    \o (IF Includes(goalLower, WordSummar)
        THEN <<SummarizationAdvice>> ELSE <<>>)
    \o (IF Includes(goalLower, WordClassif) \/ Includes(goalLower, WordCategor)
        THEN <<ClassificationAdvice>> ELSE <<>>)
    \o (IF Includes(goalLower, WordGenerat) \/ Includes(goalLower, WordText)
        THEN <<TextGenerationAdvice>> ELSE <<>>)
    \o <<FallbackAdvice>>

\* the four `if (goalLower.includes(...))` pushes, then the fallback push
Recommendations(goalLower) ==
    LET found ==
            (IF Includes(goalLower, WordQuestion) \/ Includes(goalLower, WordQa)
             THEN <<QuestionAnsweringAdvice>> ELSE <<>>)
         \o (IF Includes(goalLower, WordSummar)
             THEN <<SummarizationAdvice>> ELSE <<>>)
         \o (IF Includes(goalLower, WordClassif) \/ Includes(goalLower, WordCategor)
             THEN <<ClassificationAdvice>> ELSE <<>>)
         \o (IF Includes(goalLower, WordGenerat) \/ Includes(goalLower, WordText)
             THEN <<TextGenerationAdvice>> ELSE <<>>)
    IN  IF Len(found) = 0 THEN <<FallbackAdvice>> ELSE found

\* user_goal.toLowerCase() throws when user_goal is undefined
guideJobCreation(args) ==
    IF ~Has(args, "user_goal")
    THEN Thrown(<<"Cannot read properties of undefined (reading 'toLowerCase')">>)
    ELSE Returned(Unchanged(NoResponse),
                  TextResult([user_goal |-> args.user_goal,
                              recommendations |->
                                  Recommendations(ToLowerCase(args.user_goal)),
                              next_steps |-> NextSteps]))

(* The goals put to the guidance tool *)

GoalPythonPairs ==
    << "I", " ", "n", "e", "e", "d", " ", "2", "0", "0", " ", "Q", "&",
       "A", " ", "p", "a", "i", "r", "s", " ", "a", "b", "o", "u", "t",
       " ", "P", "y", "t", "h", "o", "n" >>

GoalGibberish ==
    << "z", "z", "z", " ", "u", "n", "r", "e", "l", "a", "t", "e", "d",
       " ", "g", "i", "b", "b", "e", "r", "i", "s", "h" >>

GoalQuestions ==
    << "G", "e", "n", "e", "r", "a", "t", "e", " ", "Q", "U", "E", "S",
       "T", "I", "O", "N", "S", " ", "a", "n", "d", " ", "s", "u", "m",
       "m", "a", "r", "i", "e", "s" >>

GoalCategories ==
    << "c", "a", "t", "e", "g", "o", "r", "i", "z", "e", " ", "m", "y",
       " ", "t", "e", "x", "t" >>

GoalEmpty ==
    <<  >>

GoalQaClassifier ==
    << "Q", "A", " ", "C", "l", "a", "s", "s", "i", "f", "i", "e", "r" >>

GoalSummary ==
    << "S", "U", "M", "M", "A", "R", "Y" >>

Goals ==
    { GoalPythonPairs, GoalGibberish, GoalQuestions, GoalCategories, GoalEmpty,
      GoalQaClassifier, GoalSummary }

\* the first key each handler destructures from args
FirstKey(name) ==
    CASE name = "create_synthetic_data_job" -> "job_name"
      [] name = "list_jobs"                 -> "status"
      [] name = "guide_job_creation"        -> "user_goal"
      [] OTHER                              -> "job_id"

\* variant: the switch has no case for cancel_job
DispatchedToolsFive ==
    {"create_synthetic_data_job", "get_job_status", "list_jobs",
     "get_job_results", "guide_job_creation"}

\* the names the switch has a case for
DispatchedTools ==
    {"create_synthetic_data_job", "get_job_status", "list_jobs",
     "get_job_results", "cancel_job", "guide_job_creation"}

\* the catalogue the ListToolsRequestSchema handler returns: each tool's
\* name and the `required` list of its inputSchema
ToolCatalogue ==
    << [name |-> "create_synthetic_data_job", required |-> {"job_name", "task_type"}],
       [name |-> "get_job_status",            required |-> {"job_id"}],
       [name |-> "list_jobs",                 required |-> {}],
       [name |-> "get_job_results",           required |-> {"job_id"}],
       [name |-> "cancel_job",                required |-> {"job_id"}],
       [name |-> "guide_job_creation",        required |-> {"user_goal"}] >>

\* variant: a name the switch does not know is handled as cancel_job
CallToolFallThrough(params, diskOk) ==
    LET name == params.name
        args == params.arguments
    IN  IF ~Has(params, "arguments")
        THEN Thrown(DestructureMessage(FirstKey(name)))
        ELSE CASE name = "create_synthetic_data_job" -> createJob(args, diskOk)
               [] name = "get_job_status"            -> getJobStatus(args)
               [] name = "list_jobs"                 -> listJobs(args)
               [] name = "get_job_results"           -> getJobResults(args)
               [] name = "guide_job_creation"        -> guideJobCreation(args)
               [] OTHER                              -> cancelJob(args)

\* the CallToolRequestSchema handler: params is { name, arguments }
CallTool(params, diskOk) ==
    LET name == params.name
        args == params.arguments
    IN  IF name \notin DispatchedTools
        THEN Thrown(<<"Unknown tool: ", name>>)
        ELSE IF ~Has(params, "arguments")
        THEN Thrown(DestructureMessage(FirstKey(name)))
        ELSE CASE name = "create_synthetic_data_job" -> createJob(args, diskOk)
               [] name = "get_job_status"            -> getJobStatus(args)
               [] name = "list_jobs"                 -> listJobs(args)
               [] name = "get_job_results"           -> getJobResults(args)
               [] name = "cancel_job"                -> cancelJob(args)
               [] name = "guide_job_creation"        -> guideJobCreation(args)

\* the tools whose handler calls the backend
BackendTools == DispatchedTools \ {"guide_job_creation"}

\* the message of the Error axios rejects with when nothing listens at
\* NEMO_API_URL
NetworkMessage == <<"connect ECONNREFUSED">>

\* the handler while the backend cannot be reached: every axios call rejects
\* before any request gets to the backend
CallToolOffline(params) ==
    IF params.name \in BackendTools /\ Has(params, "arguments")
    THEN Thrown(NetworkMessage)
    ELSE CallTool(params, TRUE)

ToolCalls ==
    { [name |-> "create_synthetic_data_job",
       arguments |-> [job_name |-> "sentiment", task_type |-> "classification",
                      num_samples |-> 50,
                      config |-> [class_labels |-> <<"positive", "negative", "neutral">>]]],
      [name |-> "create_synthetic_data_job",
       arguments |-> [job_name |-> "defaults", task_type |-> "translation"]],
      [name |-> "create_synthetic_data_job",
       arguments |-> [task_type |-> "classification"]],
      [name |-> "list_jobs", arguments |-> EmptyObject],
      [name |-> "list_jobs", arguments |-> [status |-> "completed", limit |-> 1]],
      [name |-> "get_job_results"],
      [name |-> "get_job_status", arguments |-> EmptyObject],
      [name |-> "delete_job", arguments |-> [job_id |-> JobId(1)]] }
    \cup { [name |-> n, arguments |-> [job_id |-> id]] :
             n \in {"get_job_status", "get_job_results", "cancel_job"}, id \in JobIds }

\* the calls of the tools that read jobs
ReadCalls ==
    {c \in ToolCalls : c.name \in {"get_job_status", "list_jobs", "get_job_results"}}

\* the calls of the guidance tool
GuideCalls ==
    { [name |-> "guide_job_creation", arguments |-> [user_goal |-> goal]] :
        goal \in Goals }
    \cup { [name |-> "guide_job_creation", arguments |-> EmptyObject],
           [name |-> "guide_job_creation"] }

\* guidance calls of little text
BriefGuideCalls ==
    { [name |-> "guide_job_creation", arguments |-> [user_goal |-> GoalEmpty]],
      [name |-> "guide_job_creation", arguments |-> EmptyObject],
      [name |-> "guide_job_creation"] }

----------------------------------------------------------------------------
(* Actions *)

NoRequest == [via |-> "none"]

Http(op, args) == [via |-> "http", op |-> op, args |-> args]

Init ==
    /\ jobs = <<>>
    /\ timers = {}
    /\ clock = 0
    /\ request = NoRequest
    /\ response = NoResponse
    /\ toolResult = NoResponse
    /\ cancelled = {}

Apply(out) ==
    /\ jobs' = out.jobs
    /\ timers' = out.timers
    /\ response' = out.response
    /\ cancelled' = out.cancelled
    /\ UNCHANGED clock

\* the create requests of a run that the backend accepts arrive while the
\* store has room and the clock is inside the window explored
MayCreate == Len(jobs) < MaxJobs /\ clock < CreateWindow

\* a create request the validation turns down may arrive at any time
Refused(body) == Falsy(body, "name") \/ Falsy(body, "task_type")

HttpHealth ==
    /\ Apply(Health)
    /\ request' = Http("health", EmptyObject)
    /\ toolResult' = NoResponse

HttpCreate ==
    /\ \E body \in {b \in CreateBodies : MayCreate \/ Refused(b)},
          diskOk \in BOOLEAN :
          /\ Apply(PostJobs(body, diskOk))
          /\ request' = Http("create", body)
    /\ toolResult' = NoResponse

HttpGet ==
    /\ \E id \in JobIds :
          /\ Apply(GetJob(id))
          /\ request' = Http("get", [job_id |-> id])
    /\ toolResult' = NoResponse

HttpList ==
    /\ \E query \in ListQueries :
          /\ Apply(ListJobs(query))
          /\ request' = Http("list", query)
    /\ toolResult' = NoResponse

HttpResults ==
    /\ \E id \in JobIds :
          /\ Apply(GetResults(id))
          /\ request' = Http("results", [job_id |-> id])
    /\ toolResult' = NoResponse

HttpCancel ==
    /\ \E id \in JobIds :
          /\ Apply(CancelJob(id))
          /\ request' = Http("cancel", [job_id |-> id])
    /\ toolResult' = NoResponse

Invoke(params, diskOk) ==
    /\ LET ret == CallTool(params, diskOk)
       IN  /\ Apply(ret.out)
           /\ toolResult' = ret.result
    /\ request' = [via |-> "tool", params |-> params]

ToolCall ==
    \E params \in ToolCalls, diskOk \in BOOLEAN :
        /\ params.name = "create_synthetic_data_job" => MayCreate
        /\ params.name # "create_synthetic_data_job" => diskOk
        /\ Invoke(params, diskOk)

ToolGuide == \E params \in GuideCalls : Invoke(params, TRUE)

ToolGuideBrief == \E params \in BriefGuideCalls : Invoke(params, TRUE)

\* a tool call made while the backend is down
ToolOffline ==
    \E params \in ToolCalls \cup BriefGuideCalls :
        /\ LET ret == CallToolOffline(params)
           IN  /\ Apply(ret.out)
               /\ toolResult' = ret.result
        /\ request' = [via |-> "tool-offline", params |-> params]

\* the ListToolsRequestSchema handler
ListTools ==
    /\ request' = [via |-> "tools/list"]
    /\ toolResult' = [tools |-> ToolCatalogue]
    /\ response' = NoResponse
    /\ UNCHANGED <<jobs, timers, clock, cancelled>>

FireTimer ==
    \E t \in timers :
        /\ MayRun(t)
        /\ LET i == JobsIndex(jobs, t.job)
           IN  \E rnd \in Draws(jobs[i], t.kind) :
                   jobs' = [jobs EXCEPT ![i] = Callback(@, t.kind, rnd)]
        /\ timers' = timers \ {t}
        /\ request' = NoRequest
        /\ response' = NoResponse
        /\ toolResult' = NoResponse
        /\ UNCHANGED <<clock, cancelled>>

\* Time passes until the next armed timer is due; a timer that is due runs
\* before time passes again.  With no timer armed nothing in the program
\* waits for the clock, and the clock is left where it is.
NextInstant == CHOOSE d \in {t.due : t \in timers} : \A t \in timers : d <= t.due

Tick ==
    /\ timers # {}
    /\ \A t \in timers : t.due > clock
    /\ NextInstant <= MaxClock
    /\ clock' = NextInstant
    /\ request' = NoRequest
    /\ response' = NoResponse
    /\ toolResult' = NoResponse
    /\ UNCHANGED <<jobs, timers, cancelled>>

Next ==
    \/ HttpHealth
    \/ HttpCreate
    \/ HttpGet
    \/ HttpList
    \/ HttpResults
    \/ HttpCancel
    \/ ToolCall
    \/ FireTimer
    \/ Tick

Spec == Init /\ [][Next]_vars

\* the guidance tool beside the life of the jobs
GuideNext == ToolGuide \/ HttpCreate \/ HttpCancel \/ FireTimer \/ Tick

GuideSpec == Init /\ [][GuideNext]_vars

\* the generator run at the end of a job's life, over the create requests
\* GenBodies
GenCreate ==
    /\ MayCreate
    /\ \E body \in GenBodies :
          /\ Apply(PostJobs(body, TRUE))
          /\ request' = Http("create", body)
    /\ toolResult' = NoResponse

GenNext == GenCreate \/ FireTimer \/ Tick

GenSpec == Init /\ [][GenNext]_vars

\* the tool layer alone in front of the backend, which may be down
DispatchNext ==
    ListTools \/ ToolCall \/ ToolGuideBrief \/ ToolOffline \/ FireTimer \/ Tick

DispatchSpec == Init /\ [][DispatchNext]_vars

\* the list of a store of several jobs that are created, run and are
\* cancelled
ListCreate ==
    /\ Len(jobs) < ListMaxJobs
    /\ clock < CreateWindow
    /\ Apply(PostJobs(ListedBody, TRUE))
    /\ request' = Http("create", ListedBody)
    /\ toolResult' = NoResponse

ListCancel ==
    /\ \E id \in ListedIds :
          /\ Apply(CancelJob(id))
          /\ request' = Http("cancel", [job_id |-> id])
    /\ toolResult' = NoResponse

ListList ==
    /\ \E query \in StoreQueries :
          /\ Apply(ListJobs(query))
          /\ request' = Http("list", query)
    /\ toolResult' = NoResponse

ToolList ==
    \E args \in ToolListArguments :
        Invoke([name |-> "list_jobs", arguments |-> args], TRUE)

ListNext ==
    ListCreate \/ ListCancel \/ ListList \/ ToolList \/ FireTimer \/ Tick

ListSpec == Init /\ [][ListNext]_vars

\* the backend routes on a store of several jobs of different requests
StoreCreate ==
    /\ Len(jobs) < StoreMaxJobs
    /\ clock < CreateWindow
    /\ \E body \in StoreBodies :
          /\ Apply(PostJobs(body, TRUE))
          /\ request' = Http("create", body)
    /\ toolResult' = NoResponse

StoreGet ==
    /\ \E id \in StoreIds :
          /\ Apply(GetJob(id))
          /\ request' = Http("get", [job_id |-> id])
    /\ toolResult' = NoResponse

StoreResults ==
    /\ \E id \in StoreIds :
          /\ Apply(GetResults(id))
          /\ request' = Http("results", [job_id |-> id])
    /\ toolResult' = NoResponse

StoreCancel ==
    /\ \E id \in StoreIds :
          /\ Apply(CancelJob(id))
          /\ request' = Http("cancel", [job_id |-> id])
    /\ toolResult' = NoResponse

StoreNext ==
    StoreCreate \/ StoreGet \/ StoreResults \/ StoreCancel \/ FireTimer \/ Tick

StoreSpec == Init /\ [][StoreNext]_vars

\* the same store with the event loop at work: a timer that is due runs,
\* and time goes on while a timer is armed
LiveSpec ==
    Init /\ [][StoreNext]_vars /\ WF_vars(FireTimer) /\ WF_vars(Tick)

\* the reading operations of both layers, among creates, cancels and timers
ToolRead == \E params \in ReadCalls : Invoke(params, TRUE)

ReadNext ==
    \/ StoreCreate
    \/ StoreCancel
    \/ HttpHealth
    \/ StoreGet
    \/ ListList
    \/ StoreResults
    \/ ToolRead
    \/ ListTools
    \/ ToolGuideBrief
    \/ FireTimer
    \/ Tick

ReadSpec == Init /\ [][ReadNext]_vars

----------------------------------------------------------------------------
(* Properties *)

JobIndices == DOMAIN jobs

WasCancelled(job) == job.job_id \in cancelled

TerminalRefusal(status) == status = "completed" \/ status = "failed"

\* the job a cancel request names, as a set: empty for any other request
CancelTarget(req) ==
    IF req.via = "http" /\ req.op = "cancel" THEN {req.args.job_id}
    ELSE IF req.via = "tool" /\ req.params.name = "cancel_job"
            /\ Has(req.params, "arguments")
         THEN {IdSegment(req.params.arguments)}
         ELSE {}

\* the job a get-results request names on the backend route
ResultsTarget(req) ==
    IF req.via = "http" /\ req.op = "results" THEN {req.args.job_id} ELSE {}

\* the job a get_job_results tool call names
ToolResultsTarget(req) ==
    IF req.via = "tool" /\ req.params.name = "get_job_results"
       /\ Has(req.params, "arguments")
    THEN {IdSegment(req.params.arguments)}
    ELSE {}

IsErrorResult(result) == Has(result, "isError") /\ result.isError

\* the text of an error result has the piece `piece`
Mentions(result, piece) ==
    \E k \in DOMAIN result.content[1].text : result.content[1].text[k] = piece

\* C1: once a cancel has succeeded on a job, the job's status is 'cancelled'
\* and stays 'cancelled', and its progress stays what it was, in every later
\* step (timer callbacks and requests alike).
C1_CancelIsStable ==
    [][\A i \in JobIndices :
          jobs[i].status = "cancelled"
            => /\ jobs'[i].status = "cancelled"
               /\ jobs'[i].progress = jobs[i].progress]_vars

Lifecycle ==
    << <<"pending", 0>>, <<"running", 25>>, <<"running", 75>>, <<"completed", 100>> >>

Phase(job) == <<job.status, job.progress>>

OnLifecycle(job) == \E k \in DOMAIN Lifecycle : Lifecycle[k] = Phase(job)

PhaseIndex(job) == CHOOSE k \in DOMAIN Lifecycle : Lifecycle[k] = Phase(job)

\* C2: a job that was never cancelled starts at (pending, 0) and each step
\* either leaves its (status, progress) alone or moves it to the next value
\* of pending 0 -> running 25 -> running 75 -> completed 100; nothing
\* follows completed 100.
C2_LifecycleInOrder ==
    [][\A i \in DOMAIN jobs' :
          jobs'[i].job_id \notin cancelled'
            => /\ OnLifecycle(jobs'[i])
               /\ IF i \in JobIndices
                  THEN /\ OnLifecycle(jobs[i])
                       /\ PhaseIndex(jobs'[i]) \in
                            {PhaseIndex(jobs[i]), PhaseIndex(jobs[i]) + 1}
                  ELSE PhaseIndex(jobs'[i]) = 1]_vars

C2_Witness ==
    \E i \in JobIndices :
        ~WasCancelled(jobs[i]) /\ Phase(jobs[i]) = <<"completed", 100>>

\* C3: after every step a job has results exactly when its status is
\* 'completed', and the results a job has are never changed by a step.
C3_ResultsIffCompleted ==
    [][/\ \A i \in DOMAIN jobs' :
             Has(jobs'[i], "results") <=> jobs'[i].status = "completed"
       /\ \A i \in JobIndices :
             Has(jobs[i], "results")
               => Has(jobs'[i], "results") /\ jobs'[i].results = jobs[i].results]_vars

C3_Witness ==
    \E i \in JobIndices :
        /\ jobs[i].status = "completed"
        /\ Has(jobs[i], "results")
        /\ Len(jobs[i].results) = PreviewCap
        /\ request.via = "http"

\* C4: in every state, a job's progress is 100 exactly when its status is
\* 'completed', whether or not a cancel ever succeeded on it.
C4_FullIffCompleted ==
    \A i \in JobIndices : jobs[i].progress = 100 <=> jobs[i].status = "completed"

C4_Witness ==
    \E i \in JobIndices :
        WasCancelled(jobs[i]) /\ jobs[i].status = "completed" /\ jobs[i].progress = 100

\* C5: no step lowers the progress of a job.
C5_ProgressNeverDecreases ==
    [][\A i \in JobIndices : jobs'[i].progress >= jobs[i].progress]_vars

C5_Witness ==
    \E i \in JobIndices :
        /\ jobs[i].progress = 75
        /\ WasCancelled(jobs[i])
        /\ \E t \in timers : t.job = jobs[i].job_id /\ t.kind = 3

\* C6: a cancel request on a job whose status is 'completed' or 'failed' is
\* answered 400 and changes nothing in the store; and no step at all
\* changes a completed job.
C6_CancelRefusedOnTerminal ==
    [][/\ \A id \in CancelTarget(request') :
             (JobsHas(jobs, id) /\ TerminalRefusal(JobsGet(jobs, id).status))
               => response'.status = 400 /\ jobs' = jobs /\ timers' = timers
       /\ \A i \in JobIndices :
             jobs[i].status = "completed" => jobs'[i] = jobs[i]]_vars

C6_Witness ==
    \E id \in CancelTarget(request) :
        /\ JobsHas(jobs, id)
        /\ JobsGet(jobs, id).status = "completed"
        /\ response.status = 400

\* C7: a create answered 201 has appended one job, whose id was not in the
\* store, with status 'pending', progress 0 and no results, and the response
\* carries that job's id and the status 'pending'.
C7_CreatedPending ==
    [][response'.status = 201
         => /\ Len(jobs') = Len(jobs) + 1
            /\ SubSeq(jobs', 1, Len(jobs)) = jobs
            /\ LET job == jobs'[Len(jobs')]
               IN  /\ ~JobsHas(jobs, job.job_id)
                   /\ job.status = "pending"
                   /\ job.progress = 0
                   /\ ~Has(job, "results")
                   /\ response'.body.job_id = job.job_id
                   /\ response'.body.status = "pending"]_vars

C7_Witness ==
    /\ response.status = 201
    /\ request.via = "http"
    /\ Len(jobs) = MaxJobs

\* C8: a get-results request on the backend for a job of the store that is
\* not completed is answered 400 with the job's status and progress and
\* without results; for a completed job it is answered with the job's results.
C8_ResultsOnlyWhenCompleted ==
    \A id \in ResultsTarget(request) :
        JobsHas(jobs, id)
          => LET job == JobsGet(jobs, id)
             IN  IF job.status # "completed"
                 THEN /\ response.status = 400
                      /\ ~Has(response.body, "results")
                      /\ response.body.status = job.status
                      /\ response.body.progress = job.progress
                 ELSE /\ response.status = 200
                      /\ response.body.results = job.results

C8_Witness ==
    \E id \in ResultsTarget(request) :
        /\ JobsHas(jobs, id)
        /\ JobsGet(jobs, id).status = "cancelled"
        /\ response.status = 400
        /\ response.body.progress = 25

\* C9: the result of a get_job_results tool call for a job of the store that
\* is not completed is error-flagged and carries the job's status and
\* progress.
C9_ToolErrorCarriesProgress ==
    \A id \in ToolResultsTarget(request) :
        (JobsHas(jobs, id) /\ JobsGet(jobs, id).status # "completed")
          => /\ IsErrorResult(toolResult)
             /\ Mentions(toolResult, JobsGet(jobs, id).status)
             /\ Mentions(toolResult, ToString(JobsGet(jobs, id).progress))

\* C10: a completed job has min(num_samples, 10) results, whatever its
\* num_samples and task_type.
C10_ResultsLength ==
    \A i \in JobIndices :
        jobs[i].status = "completed"
          => Len(jobs[i].results) = Min(jobs[i].num_samples, PreviewCap)

----------------------------------------------------------------------------
(* Claims on the generator, under GenSpec *)

ClassificationJobs ==
    {i \in JobIndices : jobs[i].task_type = "classification"
                          /\ jobs[i].status = "completed"}

LabelsOf(results) == [i \in DOMAIN results |-> results[i].label]

\* the labels configured for a job, or the three generic ones
ConfiguredLabels(job) ==
    IF Has(job.config, "class_labels") THEN job.config.class_labels
    ELSE <<"class_1", "class_2", "class_3">>

\* C11: record i (counted from 0) of a completed classification job has the
\* label class_labels[i mod len(class_labels)], with class_1, class_2, class_3
\* when the configuration has no class_labels; 50 samples asked for with the
\* labels positive, negative, neutral give 10 records whose labels cycle
\* positive, negative, neutral, positive, ...
C11_LabelsCycle ==
    \A i \in ClassificationJobs :
        LET job == jobs[i]
            labels == ConfiguredLabels(job)
        IN  /\ Len(labels) > 0 =>
                  \A k \in DOMAIN job.results :
                      job.results[k].label = labels[((k - 1) % Len(labels)) + 1]
            /\ (job.num_samples = 50
                  /\ labels = <<"positive", "negative", "neutral">>) =>
                  LabelsOf(job.results) =
                      <<"positive", "negative", "neutral",
                        "positive", "negative", "neutral",
                        "positive", "negative", "neutral", "positive">>

C11_Witness ==
    /\ \E i \in ClassificationJobs :
          /\ jobs[i].num_samples = 50
          /\ jobs[i].config = [class_labels |-> <<"positive", "negative", "neutral">>]
          /\ Len(jobs[i].results) = 10
          /\ jobs[i].results[4].label = "positive"
          /\ jobs[i].results[10].label = "positive"

\* a classification job created without class_labels has completed with the
\* generic labels
C11_DefaultLabelsReached ==
    \E i \in ClassificationJobs :
        /\ ~Has(jobs[i].config, "class_labels")
        /\ Len(jobs[i].results) >= 4
        /\ LabelsOf(SubSeq(jobs[i].results, 1, 4))
              = <<"class_1", "class_2", "class_3", "class_1">>

----------------------------------------------------------------------------
(* Claims on the tool layer, under DispatchSpec *)

IsToolRequest(req) == req.via = "tool" \/ req.via = "tool-offline"

CatalogueNames == {ToolCatalogue[k].name : k \in DOMAIN ToolCatalogue}

CatalogueEntry(name) ==
    ToolCatalogue[CHOOSE k \in DOMAIN ToolCatalogue : ToolCatalogue[k].name = name]

\* the underlying call of a tool request fails: the name is unknown, the
\* arguments cannot be read, the backend is down, or the backend answered
\* with an error status
CallFails(req) ==
    LET name == req.params.name
    IN  \/ name \notin CatalogueNames
        \/ ~Has(req.params, "arguments")
        \/ /\ name = "guide_job_creation"
           /\ ~Has(req.params.arguments, "user_goal")
        \/ /\ name # "guide_job_creation"
           /\ \/ req.via = "tool-offline"
              \/ response.status < 200
              \/ response.status >= 300

ResultText(result) == result.content[1].text

\* C12: every invocation of a tool yields exactly one result; the result is
\* error-flagged, with a text that carries the error's message, whenever
\* the underlying call fails (error status of the backend, backend down,
\* exception while the arguments are handled), and is not error-flagged when
\* the call succeeds.
C12_OneResultFlaggedIffFailed ==
    IsToolRequest(request) =>
        /\ Has(toolResult, "content")
        /\ Len(toolResult.content) = 1
        /\ toolResult.content[1].type = "text"
        /\ IsErrorResult(toolResult) <=> CallFails(request)
        /\ IsErrorResult(toolResult) =>
              /\ Len(ResultText(toolResult)) > 1
              /\ ResultText(toolResult)[1] = "Error: "
              /\ response.status >= 300 =>
                    Mentions(toolResult, ToString(response.status))
              /\ (request.via = "tool-offline"
                    /\ request.params.name \in BackendTools
                    /\ Has(request.params, "arguments")) =>
                    Mentions(toolResult, "connect ECONNREFUSED")

\* a status call on a missing job is answered 404 by the backend and
\* error-flagged by the tool; the store holds a job
C12_Witness ==
    /\ request.via = "tool"
    /\ request.params.name = "get_job_status"
    /\ response.status = 404
    /\ IsErrorResult(toolResult)
    /\ Mentions(toolResult, "404")
    /\ Len(jobs) > 0

\* C13: a tool name that is not in the catalogue yields an error-flagged
\* result that names the tool, no call of the backend, and the same store.
C13_UnknownOperation ==
    [][ (IsToolRequest(request') /\ request'.params.name \notin CatalogueNames)
          => /\ IsErrorResult(toolResult')
             /\ ResultText(toolResult')
                   = <<"Error: ", "Unknown tool: ", request'.params.name>>
             /\ response' = NoResponse
             /\ jobs' = jobs
             /\ timers' = timers ]_vars

C13_Witness ==
    /\ request.via = "tool"
    /\ request.params.name = "delete_job"
    /\ IsErrorResult(toolResult)
    /\ Mentions(toolResult, "delete_job")
    /\ Len(jobs) > 0
    /\ jobs[1].status = "pending"

\* the required fields a tool request leaves out
MissingFields(req) ==
    IF ~Has(req.params, "arguments")
    THEN CatalogueEntry(req.params.name).required
    ELSE CatalogueEntry(req.params.name).required \ DOMAIN req.params.arguments

\* C14: a tool call that leaves out a required field of the tool's schema
\* is refused before anything is invoked, with an error result that names
\* the missing field.
C14_MissingFieldNamed ==
    (/\ request.via = "tool"
     /\ request.params.name \in CatalogueNames
     /\ MissingFields(request) # {})
        => /\ IsErrorResult(toolResult)
           /\ response = NoResponse
           /\ \A f \in MissingFields(request) : Mentions(toolResult, f)

----------------------------------------------------------------------------
(* Claims on create and list *)

\* the body a create request brings to the backend, as a set: empty for any
\* other request
CreateBody(req) ==
    IF req.via = "http" /\ req.op = "create" THEN {req.args}
    ELSE IF req.via = "tool" /\ req.params.name = "create_synthetic_data_job"
            /\ Has(req.params, "arguments")
         THEN {JobPayload(req.params.arguments)}
         ELSE {}

EmptyOrUnset(body, key) == key \notin DOMAIN body \/ body[key] = ""

\* C15: a create request whose name or task_type is empty or unset is
\* answered with the invalid-argument status 400, stores no job, arms no
\* timer, and leaves the jobs of the store as they were.
C15_InvalidCreateRejected ==
    [][ \A body \in CreateBody(request') :
            (EmptyOrUnset(body, "name") \/ EmptyOrUnset(body, "task_type"))
                => /\ response'.status = 400
                   /\ jobs' = jobs
                   /\ timers' = timers ]_vars

\* a create request with the empty task_type was turned down while the store
\* holds a job whose timers are armed
C15_Witness ==
    /\ request.via = "http"
    /\ request.op = "create"
    /\ Has(request.args, "task_type")
    /\ request.args.task_type = ""
    /\ response.status = 400
    /\ Len(jobs) > 0
    /\ timers # {}

\* C16: creation is all or nothing: a create request either returns success,
\* with the job stored and its three timers armed, or leaves the store and
\* the timers as they were, also when a step inside create fails.
C16_CreateAllOrNothing ==
    [][ \A body \in CreateBody(request') :
            \/ /\ response'.status = 201
               /\ Len(jobs') = Len(jobs) + 1
               /\ SubSeq(jobs', 1, Len(jobs)) = jobs
               /\ Cardinality({t \in timers' \ timers :
                                  t.job = jobs'[Len(jobs')].job_id}) = 3
            \/ /\ response'.status # 201
               /\ jobs' = jobs
               /\ timers' = timers ]_vars

\* the query a list request brings to the backend, as a set
ListQuery(req) ==
    IF req.via = "http" /\ req.op = "list" THEN {req.args}
    ELSE IF req.via = "tool" /\ req.params.name = "list_jobs"
            /\ Has(req.params, "arguments")
         THEN {req.params.arguments}
         ELSE {}

\* the jobs of the store with the status asked for, in the order of the
\* store; all of them when no status is asked for
Matching(query) ==
    IF "status" \in DOMAIN query
    THEN SelectSeq(jobs, LAMBDA job : job.status = query.status)
    ELSE jobs

FirstN(seq, n) == SubSeq(seq, 1, IF n < Len(seq) THEN n ELSE Len(seq))

LimitOf(query) == IF "limit" \in DOMAIN query THEN query.limit ELSE 10

\* the jobs a list request was answered with
Listed(req) ==
    IF req.via = "http" THEN response.body.jobs
    ELSE ResultText(toolResult)[1].json.jobs

IdsOf(seq) == [k \in DOMAIN seq |-> seq[k].job_id]

\* C17: for every non-negative limit, list returns the first `limit` jobs,
\* in the order of creation, among the jobs whose status equals the filter
\* (among all jobs without a filter): the filter comes before the cut, and
\* with three jobs, limit 2 and no filter the answer is the first two jobs
\* created, whatever their statuses.
C17_ListFilterThenLimit ==
    /\ \A k \in JobIndices : jobs[k].job_id = JobId(k)
    /\ \A query \in ListQuery(request) :
          LimitOf(query) >= 0 =>
              /\ response.status = 200
              /\ Listed(request) = FirstN(Matching(query), LimitOf(query))
              /\ response.body.total = Len(Listed(request))
              /\ (Len(jobs) = 3 /\ query = [limit |-> 2]) =>
                    IdsOf(Listed(request)) = <<JobId(1), JobId(2)>>

\* three jobs of different statuses, listed with limit 2 and no filter
C17_Witness ==
    /\ Len(jobs) = 3
    /\ request = Http("list", [limit |-> 2])
    /\ response.body.jobs = <<jobs[1], jobs[2]>>
    /\ jobs[1].status = "running"
    /\ jobs[2].status = "cancelled"
    /\ jobs[3].status = "pending"

\* the filter leaves out the first job and the cut keeps the second
C17_FilterBeforeCutReached ==
    /\ Len(jobs) = 3
    /\ request = Http("list", [status |-> "cancelled", limit |-> 1])
    /\ jobs[1].status # "cancelled"
    /\ IdsOf(response.body.jobs) = <<JobId(2)>>

----------------------------------------------------------------------------
(* Claims on the goal analysis, under GuideSpec *)

\* the goal a guidance request carries, as a set
GoalOf(req) ==
    IF req.via = "tool" /\ req.params.name = "guide_job_creation"
       /\ Has(req.params, "arguments")
       /\ Has(req.params.arguments, "user_goal")
    THEN {req.params.arguments.user_goal}
    ELSE {}

Advice == ResultText(toolResult)[1].json.recommendations

\* the word is a run of consecutive characters of the text
Contains(text, word) ==
    \E from \in 1..(Len(text) - Len(word) + 1) :
        SubSeq(text, from, from + Len(word) - 1) = word

\* the keywords of each task type, in the order the claim fixes
Keywords ==
    << [type |-> "question_answering",
        words |-> {<<"q", "u", "e", "s", "t", "i", "o", "n">>, <<"q", "a">>}],
       [type |-> "summarization",
        words |-> {<<"s", "u", "m", "m", "a", "r">>}],
       [type |-> "classification",
        words |-> {<<"c", "l", "a", "s", "s", "i", "f">>,
                   <<"c", "a", "t", "e", "g", "o", "r">>}],
       [type |-> "text_generation",
        words |-> {<<"g", "e", "n", "e", "r", "a", "t">>, <<"t", "e", "x", "t">>}] >>

Matches(k, goal) == \E word \in Keywords[k].words : Contains(ToLowerCase(goal), word)

\* the task types whose keywords the goal has, in the fixed order
RECURSIVE MatchedFrom(_, _)
MatchedFrom(k, goal) ==
    IF k > Len(Keywords) THEN <<>>
    ELSE (IF Matches(k, goal) THEN <<Keywords[k].type>> ELSE <<>>)
         \o MatchedFrom(k + 1, goal)

IsTaskAdvice(rec) == "task_type" \in DOMAIN rec

IsFallback(rec) ==
    /\ ~IsTaskAdvice(rec)
    /\ DOMAIN rec = {"message", "available_tasks"}
    /\ Len(rec.available_tasks) = 4

TaskTypes(recs) ==
    LET kept == SelectSeq(recs, IsTaskAdvice)
    IN  [k \in DOMAIN kept |-> kept[k].task_type]

\* C18: the recommendations have one entry for each task type whose keyword
\* predicate (question/qa, summar, classif/categor, generat/text) matches the
\* lower-cased goal and none for the others, in the order question_answering,
\* summarization, classification, text_generation.
C18_OneEntryPerMatch ==
    \A goal \in GoalOf(request) :
        TaskTypes(Advice) = MatchedFrom(1, goal)

\* a goal with three of the four predicates matching, its words in another
\* order than the answers
C18_Witness ==
    /\ GoalOf(request) = {GoalQuestions}
    /\ TaskTypes(Advice) = <<"question_answering", "summarization", "text_generation">>

\* C19: the fallback recommendation is returned if and only if no predicate
\* matches; it never comes with a task-type recommendation, and the list is
\* never empty.
C19_FallbackIffNoMatch ==
    \A goal \in GoalOf(request) :
        /\ Len(Advice) > 0
        /\ (\E k \in DOMAIN Advice : IsFallback(Advice[k]))
              <=> (\A k \in DOMAIN Keywords : ~Matches(k, goal))
        /\ (\E k \in DOMAIN Advice : IsFallback(Advice[k]))
              => /\ Len(Advice) = 1
                 /\ TaskTypes(Advice) = <<>>
        /\ \A k \in DOMAIN Advice : IsFallback(Advice[k]) \/ IsTaskAdvice(Advice[k])

C19_Witness ==
    /\ GoalOf(request) = {GoalGibberish}
    /\ Len(Advice) = 1
    /\ IsFallback(Advice[1])

\* C20: the goal "I need 200 Q&A pairs about Python" is answered with a list
\* that has a question_answering entry, and "zzz unrelated gibberish" with
\* exactly the fallback recommendation.
C20_ExampleGoals ==
    /\ GoalOf(request) = {GoalPythonPairs} =>
          \E k \in DOMAIN Advice :
              IsTaskAdvice(Advice[k]) /\ Advice[k].task_type = "question_answering"
    /\ GoalOf(request) = {GoalGibberish} =>
          Len(Advice) = 1 /\ IsFallback(Advice[1])

\* C21: for every goal string, the empty one included, the goal analysis
\* succeeds (its result is not error-flagged), returns the same four
\* next-step strings in the same order beside the recommendations, calls
\* no backend route and leaves the job store as it was.
C21_GuidanceNeverFails ==
    [][ \A goal \in GoalOf(request') :
            /\ ~IsErrorResult(toolResult')
            /\ LET guidance == ResultText(toolResult')[1].json
               IN  /\ DOMAIN guidance = {"user_goal", "recommendations", "next_steps"}
                   /\ guidance.user_goal = goal
                   /\ guidance.next_steps =
                         << "1. Choose a task_type from the recommendations",
                            "2. Decide how many samples you need (num_samples)",
                            "3. Configure task-specific parameters",
                            "4. Use create_synthetic_data_job to start generation" >>
            /\ response' = NoResponse
            /\ jobs' = jobs
            /\ timers' = timers ]_vars

\* the empty goal was analysed while the store holds a running job
C21_Witness ==
    /\ GoalOf(request) = {GoalEmpty}
    /\ ~IsErrorResult(toolResult)
    /\ Len(ResultText(toolResult)[1].json.next_steps) = 4
    /\ Len(jobs) > 0
    /\ jobs[1].status = "running"

----------------------------------------------------------------------------
(* Claims on the store of several jobs, under StoreSpec *)

StoredIds(store) == {store[k].job_id : k \in DOMAIN store}

UniqueIds(store) ==
    \A i, j \in DOMAIN store : store[i].job_id = store[j].job_id => i = j

\* the id a request of the given route names, as a set
Target(req, op) ==
    IF req.via = "http" /\ req.op = op THEN {req.args.job_id} ELSE {}

\* C22: no two jobs share an id; a create that succeeds adds a job under an
\* id no job had and overwrites none; a job once stored is never removed,
\* and get on its id succeeds in every later state.
C22_IdsUniqueAndKept ==
    [][ /\ UniqueIds(jobs')
        /\ StoredIds(jobs) \subseteq StoredIds(jobs')
        /\ \A body \in CreateBody(request') :
              response'.status = 201 =>
                  /\ response'.body.job_id \notin StoredIds(jobs)
                  /\ response'.body.job_id \in StoredIds(jobs')
                  /\ Len(jobs') = Len(jobs) + 1
                  /\ \A k \in DOMAIN jobs : jobs'[k].job_id = jobs[k].job_id
        /\ \A id \in Target(request', "get") :
              id \in StoredIds(jobs) =>
                  /\ response'.status = 200
                  /\ response'.body.job_id = id ]_vars

\* the first job is read after it has completed and a second job was stored
C22_Witness ==
    /\ Len(jobs) = 2
    /\ request = Http("get", [job_id |-> JobId(1)])
    /\ response.status = 200
    /\ response.body.job_id = JobId(1)
    /\ response.body.status = "completed"
    /\ jobs[2].job_id = JobId(2)

FrozenFields == {"job_id", "name", "task_type", "num_samples", "config", "created_at"}

MutableFields == {"status", "progress", "updated_at", "completed_at", "results"}

\* the fields in which two versions of a job differ
Changed(before, after) ==
    {f \in DOMAIN before \cup DOMAIN after :
        \/ f \notin DOMAIN before
        \/ f \notin DOMAIN after
        \/ before[f] # after[f]}

\* a step of a route that neither creates nor cancels
ReadOnlyRequest(req) ==
    req.via = "http" /\ req.op \in {"health", "get", "list", "results"}

\* C23: after creation a job's id, name, task_type, num_samples, config and
\* created_at never change: timers and cancel change only status, progress,
\* updated_at, completed_at and results, and no other operation changes a
\* job at all.
C23_FrozenFields ==
    [][ /\ \A k \in DOMAIN jobs :
              /\ k \in DOMAIN jobs'
              /\ FrozenFields \subseteq DOMAIN jobs'[k]
              /\ \A f \in FrozenFields : jobs'[k][f] = jobs[k][f]
              /\ Changed(jobs[k], jobs'[k]) \subseteq MutableFields
        /\ (ReadOnlyRequest(request') \/ CreateBody(request') # {} \/ clock' # clock)
              => \A k \in DOMAIN jobs : jobs'[k] = jobs[k] ]_vars

\* a job has been cancelled and has run through its three callbacks with
\* the name, the configuration and the creation time of its request
C23_Witness ==
    \E k \in JobIndices :
        /\ jobs[k].job_id \in cancelled
        /\ jobs[k].status = "completed"
        /\ jobs[k].updated_at = CompleteDelay
        /\ jobs[k].created_at = 0
        /\ jobs[k].name = "alpha"
        /\ jobs[k].num_samples = 2
        /\ jobs[k].config = [domain |-> "medical"]

Terminal(job) == job.status = "completed" \/ job.status = "cancelled"

Stored(n) == n \in DOMAIN jobs

CompletedWithResults(n) ==
    /\ Stored(n)
    /\ jobs[n].status = "completed"
    /\ "results" \in DOMAIN jobs[n]
    /\ GetResults(jobs[n].job_id).response.status = 200

\* C24: with the timers firing, every job created reaches a terminal status
\* (completed or cancelled) and is in a terminal status from then on; a job
\* that is never cancelled reaches 'completed' with results, which the
\* results route then returns.
C24_ReachesTerminalAndStays ==
    /\ \A n \in 1..StoreMaxJobs :
          Stored(n) ~> (Stored(n) /\ Terminal(jobs[n]))
    /\ [][ \A n \in DOMAIN jobs :
              Terminal(jobs[n]) => Terminal(jobs'[n]) ]_vars
    /\ \A n \in 1..StoreMaxJobs :
          Stored(n) ~> (Stored(n) /\ (CompletedWithResults(n) \/ WasCancelled(jobs[n])))

\* what the code does give: every job created ends completed, with results,
\* and stays so
C24_EndsCompleted ==
    \A n \in 1..StoreMaxJobs : Stored(n) ~> [](CompletedWithResults(n))

----------------------------------------------------------------------------
(* Claims on the catalogue, under DispatchSpec *)

\* the keys of the JSON each tool's handler answers with on success
AnswerKeys(name) ==
    CASE name = "create_synthetic_data_job" -> {"success", "job_id", "status", "message"}
      [] name = "get_job_status" ->
             {"job_id", "name", "status", "progress", "created_at", "updated_at"}
      [] name = "list_jobs"          -> {"total", "jobs"}
      [] name = "get_job_results"    -> {"job_id", "results", "num_samples"}
      [] name = "cancel_job"         -> {"success", "job_id", "status", "message"}
      [] name = "guide_job_creation" -> {"user_goal", "recommendations", "next_steps"}

\* the status a successful answer of create or cancel reports
AnswerStatus(name) ==
    IF name = "create_synthetic_data_job" THEN "pending" ELSE "cancelled"

\* C26: the catalogue that list-operations returns has exactly six tools
\* (guidance, create, status, list, results, cancel); the names of the
\* catalogue are the names the invoke handler dispatches: a call of a
\* catalogued name is answered by that tool's handler, a call of any other
\* name is rejected as unknown.
C26_CatalogueIsDispatched ==
    /\ request.via = "tools/list" =>
          /\ Len(toolResult.tools) = 6
          /\ {toolResult.tools[k].name : k \in DOMAIN toolResult.tools}
                = {"guide_job_creation", "create_synthetic_data_job",
                   "get_job_status", "list_jobs", "get_job_results", "cancel_job"}
          /\ toolResult.tools = ToolCatalogue
    /\ IsToolRequest(request) =>
          LET name == request.params.name
          IN  /\ name \notin CatalogueNames
                    <=> (IsErrorResult(toolResult)
                           /\ Mentions(toolResult, "Unknown tool: "))
              /\ (name \in CatalogueNames /\ ~IsErrorResult(toolResult)) =>
                    LET answer == ResultText(toolResult)[1].json
                    IN  /\ DOMAIN answer = AnswerKeys(name)
                        /\ name \in {"create_synthetic_data_job", "cancel_job"} =>
                              answer.status = AnswerStatus(name)

\* the catalogue was listed while the store holds a job
C26_Witness ==
    /\ request.via = "tools/list"
    /\ Len(toolResult.tools) = 6
    /\ Len(jobs) > 0

\* each of the six tools has answered a call with success
C26_CancelDispatched ==
    /\ request.via = "tool"
    /\ request.params.name = "cancel_job"
    /\ ~IsErrorResult(toolResult)
    /\ ResultText(toolResult)[1].json.status = "cancelled"

\* C28: cancel succeeds on every job that is not completed or failed, that
\* is on every pending, running and already cancelled job; a cancel of a
\* cancelled job keeps its status 'cancelled' and its progress, and attaches
\* no results.
C28_CancelAlwaysAccepted ==
    [][ \A id \in Target(request', "cancel") :
            id \in StoredIds(jobs) =>
                LET before == JobsGet(jobs, id)
                    after == JobsGet(jobs', id)
                IN  before.status \notin {"completed", "failed"} =>
                        /\ before.status \in {"pending", "running", "cancelled"}
                        /\ response'.status = 200
                        /\ response'.body.status = "cancelled"
                        /\ after.status = "cancelled"
                        /\ after.progress = before.progress
                        /\ "results" \notin DOMAIN after
                        /\ before.status = "cancelled" =>
                              Changed(before, after) \subseteq {"updated_at"} ]_vars

\* a cancel was accepted at 5 s on a job at progress 25
C28_Witness ==
    /\ request = Http("cancel", [job_id |-> JobId(1)])
    /\ response.status = 200
    /\ JobId(1) \in cancelled
    /\ jobs[1].status = "cancelled"
    /\ jobs[1].progress = 25
    /\ jobs[1].updated_at = ProgressDelay

\* the jobs of the store other than the one with this id are as before
OthersKept(id) ==
    \A k \in DOMAIN jobs : jobs[k].job_id # id => jobs'[k] = jobs[k]

\* C29: jobs are independent: a callback that runs for a job, or a cancel of
\* a job, leaves every field of every other job as it was, and a create
\* leaves the existing jobs and their armed timers as they were, whatever
\* the number of jobs with timers armed and the order of the steps.
C29_JobsIndependent ==
    [][ /\ \A i, j \in DOMAIN jobs :
              i # j => (jobs'[i] = jobs[i] \/ jobs'[j] = jobs[j])
        /\ \A id \in Target(request', "cancel") :
              OthersKept(id) /\ timers' = timers
        /\ \A t \in timers \ timers' :
              /\ OthersKept(t.job)
              /\ timers' = timers \ {t}
              /\ t.due <= clock
        /\ \A body \in CreateBody(request') :
              /\ \A k \in DOMAIN jobs : jobs'[k] = jobs[k]
              /\ timers \subseteq timers'
              /\ \A t \in timers' \ timers : t.job \notin StoredIds(jobs) ]_vars

\* the first job has completed while the second, cancelled at 10 s at
\* progress 75, still has its last timer armed
C29_Witness ==
    /\ Len(jobs) = 2
    /\ jobs[1].status = "completed"
    /\ jobs[2].status = "cancelled"
    /\ jobs[2].progress = 75
    /\ jobs[2].updated_at = CompleteDelay
    /\ \E t \in timers : t.job = jobs[2].job_id

----------------------------------------------------------------------------
(* Claims on the defaults and the pairs of status and progress, under Spec *)

\* what the caller of a create request sent, as a set: the body over HTTP,
\* the arguments through the tool
CreateInput(req) ==
    IF req.via = "http" /\ req.op = "create" THEN {req.args}
    ELSE IF req.via = "tool" /\ req.params.name = "create_synthetic_data_job"
            /\ Has(req.params, "arguments")
         THEN {req.params.arguments}
         ELSE {}

\* the names of the create requests that give no num_samples
NamesWithoutCount ==
    {b.name : b \in {c \in CreateBodies :
                        "name" \in DOMAIN c /\ "num_samples" \notin DOMAIN c}}
    \cup {c.arguments.job_name :
             c \in {d \in ToolCalls :
                       /\ d.name = "create_synthetic_data_job"
                       /\ "job_name" \in DOMAIN d.arguments
                       /\ "num_samples" \notin DOMAIN d.arguments}}

\* C27: a job created without num_samples, through the tool or on the
\* backend, is stored with the sample count 100, and has 10 records of
\* results when it has completed.
C27_DefaultSampleCount ==
    /\ \A input \in CreateInput(request) :
          ("num_samples" \notin DOMAIN input /\ response.status = 201) =>
              /\ JobsHas(jobs, response.body.job_id)
              /\ JobsGet(jobs, response.body.job_id).num_samples = 100
    /\ \A k \in JobIndices :
          jobs[k].name \in NamesWithoutCount =>
              /\ jobs[k].num_samples = 100
              /\ jobs[k].status = "completed" => Len(jobs[k].results) = 10

\* the job created through the tool without num_samples
C27_Witness ==
    /\ request.via = "tool"
    /\ request.params.name = "create_synthetic_data_job"
    /\ "num_samples" \notin DOMAIN request.params.arguments
    /\ response.status = 201
    /\ jobs[1].num_samples = 100

\* the job created on the backend without num_samples has completed
C27_CompletedReached ==
    /\ Len(jobs) > 0
    /\ jobs[1].name \in NamesWithoutCount
    /\ jobs[1].status = "completed"
    /\ Len(jobs[1].results) = 10

\* the values of progress each status goes with
ProgressOf(status) ==
    CASE status = "pending"   -> {0}
      [] status = "running"   -> {25, 75}
      [] status = "completed" -> {100}
      [] status = "cancelled" -> {0, 25, 75}
      [] OTHER                -> {}

\* C30: in every state each job's status and progress go together: pending
\* with 0, running with 25 or 75, completed with 100, cancelled with 0, 25
\* or 75; progress has no other value.
C30_StatusProgressPairs ==
    \A k \in JobIndices :
        /\ jobs[k].progress \in ProgressOf(jobs[k].status)
        /\ jobs[k].progress \in {0, 25, 75, 100}

\* a job cancelled after its second callback
C30_Witness ==
    \E k \in JobIndices :
        /\ jobs[k].status = "cancelled"
        /\ jobs[k].progress = 75
        /\ jobs[k].updated_at = ProgressDelay

\* C31: the status 'failed' is never reached: every job's status is one of
\* pending, running, completed, cancelled, and a cancel that is turned down
\* for the job's status is turned down for 'completed', never for 'failed'.
C31_NeverFailed ==
    /\ \A k \in JobIndices :
          jobs[k].status \in {"pending", "running", "completed", "cancelled"}
    /\ \A id \in CancelTarget(request) :
          response.status = 400 =>
              /\ JobsHas(jobs, id)
              /\ JobsGet(jobs, id).status = "completed"
              /\ response.body.error = "Cannot cancel job with status: completed"

\* a cancel turned down by the guard, on a completed job
C31_Witness ==
    /\ request = Http("cancel", [job_id |-> JobId(1)])
    /\ response.status = 400
    /\ jobs[1].status = "completed"

\* the job has at least one result record
HasRecords(job) == Has(job, "results") /\ Len(job.results) > 0

\* C32: for every sample count that create accepts, a job has a non-empty
\* results list exactly when its status is 'completed'.
C32_NonEmptyIffCompleted ==
    \A i \in JobIndices : HasRecords(jobs[i]) <=> jobs[i].status = "completed"

\* the half of C32 that the sample count cannot break: only completed jobs
\* have result records
C32_RecordsOnlyWhenCompleted ==
    \A i \in JobIndices : HasRecords(jobs[i]) => jobs[i].status = "completed"

\* a job created with a sample count below one ends completed and empty
C32_EmptyCompleted ==
    \E i \in JobIndices :
        /\ jobs[i].status = "completed"
        /\ jobs[i].num_samples < 1
        /\ Has(jobs[i], "results")
        /\ jobs[i].results = << >>

\* the sample counts the create requests of the given job name ask for,
\* over HTTP and through the tool (the default when they give none)
CountsAskedFor(name) ==
    {Field(b, "num_samples", DefaultNumSamples) :
        b \in {c \in CreateBodies : "name" \in DOMAIN c /\ c.name = name}}
    \cup {Field(d.arguments, "num_samples", DefaultNumSamples) :
             d \in {e \in ToolCalls :
                       /\ e.name = "create_synthetic_data_job"
                       /\ "job_name" \in DOMAIN e.arguments
                       /\ e.arguments.job_name = name}}

\* C33: a successful get-results answer, over HTTP and through
\* get_job_results, carries the job's records and, as num_samples, the sample
\* count asked for at creation, not the number of records: when more than 10
\* samples were asked for, num_samples is greater than the length of results.
C33_ReportsRequestedCount ==
    \A id \in ResultsTarget(request) \cup ToolResultsTarget(request) :
        response.status = 200 =>
            LET job  == JobsGet(jobs, id)
                body == response.body
            IN  /\ body.results = job.results
                /\ body.num_samples = job.num_samples
                /\ body.num_samples \in CountsAskedFor(job.name)
                /\ body.num_samples > PreviewCap
                      => body.num_samples > Len(body.results)
                /\ request.via = "tool" =>
                      /\ ~IsErrorResult(toolResult)
                      /\ ResultText(toolResult)[1].json.num_samples = body.num_samples
                      /\ ResultText(toolResult)[1].json.results = body.results

\* get_job_results on a completed job of 50 requested samples: 10 records,
\* num_samples 50
C33_Witness ==
    /\ ToolResultsTarget(request) = {JobId(1)}
    /\ response.status = 200
    /\ ResultText(toolResult)[1].json.num_samples = 50
    /\ Len(ResultText(toolResult)[1].json.results) = PreviewCap

\* C34: in every list answer, over HTTP and through list_jobs, total is the
\* number of jobs in the jobs array of that answer, counted after the status
\* filter and the limit, and not the number of jobs in the store.
C34_TotalCountsReturned ==
    \A query \in ListQuery(request) :
        /\ response.status = 200
        /\ response.body.total = Len(response.body.jobs)
        /\ response.body.total <= Len(jobs)
        /\ request.via = "tool" =>
              /\ ~IsErrorResult(toolResult)
              /\ ResultText(toolResult)[1].json.total
                    = Len(ResultText(toolResult)[1].json.jobs)
              /\ ResultText(toolResult)[1].json.total = response.body.total

\* three jobs in the store, two of them cancelled, and a list answer of one
\* job with total 1
C34_Witness ==
    /\ Len(jobs) = 3
    /\ request = Http("list", [status |-> "cancelled", limit |-> 1])
    /\ Len(SelectSeq(jobs, LAMBDA job : job.status = "cancelled")) = 2
    /\ response.body.total = 1
    /\ Len(response.body.jobs) = 1

\* the request is a read: health, get, list or get-results on the backend,
\* the listing of the tools, or a call of a status, list, results or
\* guidance tool
IsRead(req) ==
    \/ ReadOnlyRequest(req)
    \/ req.via = "tools/list"
    \/ /\ req.via = "tool"
       /\ req.params.name \in {"get_job_status", "list_jobs", "get_job_results",
                                "guide_job_creation"}

\* C35: a read (health, get, list, get-results whether it succeeds or not,
\* the listing of the tools, the guidance, and the status, list and results
\* tools) leaves the store as it was, every job with every field, and leaves
\* the armed timers as they were.
C35_ReadsChangeNothing ==
    [][ IsRead(request') => /\ jobs' = jobs
                            /\ timers' = timers
                            /\ clock' = clock ]_vars

\* a get-results turned down on a running job whose timers are still armed
C35_Witness ==
    /\ request = Http("results", [job_id |-> JobId(1)])
    /\ response.status = 400
    /\ jobs[1].status = "running"
    /\ jobs[1].updated_at < clock
    /\ \E t \in timers : t.job = JobId(1)

\* the status tool answered for a job that is on its way
C35_ToolReadReached ==
    /\ request.via = "tool"
    /\ request.params.name = "get_job_status"
    /\ ~IsErrorResult(toolResult)
    /\ timers # {}

\* the task types the generator has a case for
KnownTypes ==
    {"question_answering", "summarization", "classification", "text_generation"}

\* the jobs of another task type
UnknownTypeJobs == {i \in JobIndices : jobs[i].task_type \notin KnownTypes}

IsGeneric(results) ==
    \A k \in DOMAIN results :
        /\ DOMAIN results[k] = {"id", "data"}
        /\ results[k].id = k
        /\ results[k].data = "Generic synthetic data sample #" \o ToString(k)

\* a create request of another task type is accepted, with the three timers
\* armed, and the job is on the lifecycle of every job
UnknownTypeAccepted ==
    /\ \A body \in CreateBody(request) :
          (~Refused(body) /\ body.task_type \notin KnownTypes) =>
              /\ response.status = 201
              /\ JobsHas(jobs, response.body.job_id)
              /\ JobsGet(jobs, response.body.job_id).task_type = body.task_type
              /\ ArmedFor(response.body.job_id) \subseteq timers
    /\ \A i \in UnknownTypeJobs : OnLifecycle(jobs[i])

\* C36: a job created with a task type other than question_answering,
\* summarization, classification and text_generation is accepted, goes
\* through pending 0, running 25, running 75, completed 100 like any job,
\* and completes with min(num_samples, 10) generic records of the fields id
\* and data.
C36_UnknownTypeDegrades ==
    /\ UnknownTypeAccepted
    /\ \A i \in UnknownTypeJobs :
          jobs[i].status = "completed" =>
              /\ IsGeneric(jobs[i].results)
              /\ Len(jobs[i].results) = Min(jobs[i].num_samples, PreviewCap)

\* C36 for the sample counts from 0 on
C36_DegradesFromZero ==
    /\ UnknownTypeAccepted
    /\ \A i \in UnknownTypeJobs :
          jobs[i].status = "completed" =>
              /\ IsGeneric(jobs[i].results)
              /\ jobs[i].num_samples >= 0 =>
                    Len(jobs[i].results) = Min(jobs[i].num_samples, PreviewCap)

\* a job of an unknown task type and 50 samples has completed with 10
\* generic records
C36_GenericReached ==
    \E i \in UnknownTypeJobs :
        /\ jobs[i].status = "completed"
        /\ jobs[i].num_samples = 50
        /\ Len(jobs[i].results) = PreviewCap
        /\ jobs[i].results[PreviewCap] = GenericRecord(PreviewCap)

\* a job of an unknown task type and -1 samples has completed with no record
C36_NegativeReached ==
    \E i \in UnknownTypeJobs :
        /\ jobs[i].status = "completed"
        /\ jobs[i].num_samples = -1
        /\ jobs[i].results = << >>

====
